---- MODULE Spec2Model ----
(***************************************************************************)
(* Folder-scoped asset lifecycle of the image gallery (identifier-based    *)
(* and slug-based variants), the row-level-security policies of the        *)
(* storage bucket, and the view-scoped parts image uploader.               *)
(*                                                                         *)
(* Strings the code inspects character by character (display names, file   *)
(* names, folder keys) are tuples of one-character strings.                *)
(***************************************************************************)
EXTENDS Integers, Sequences, FiniteSets, TLC

VARIABLES
    sanIn,      \* input handed to sanitizeFolderName
    sanOut,     \* results of the successive applications made so far
    file,       \* candidate file handed to the validation rules
    verdict,    \* outcome of the validation rules for that file
    objects,    \* rows of storage.objects in bucket everything-automotive.com
    client,     \* per browser session: the gallery variant it runs
    session,    \* per browser session: the React state `session`
    images,     \* per browser session: the React state `images`
    uploading,  \* per browser session: the React state `uploading`
    alert,      \* per browser session: the last alert() shown
    log,        \* per browser session: the last console.error message
    calls,      \* storage calls in flight
    last,       \* the storage call served last, with its outcome
    partObjects,     \* objects of bucket part-images under the part slug
    partImages,      \* per page: data of the partImages query
    uploadingImages, \* per page: the React state `uploadingImages`
    itemurl,         \* vehicle_parts.itemurl of the part slug, {} when null
    partAlert,       \* per page: the last alert() shown
    partSession,     \* per page: the React state `session`
    partOps,         \* handlers and query functions of the pages in progress
    moments,         \* history: the listings the part's folders have had
    savedItems,      \* part_id of the rows of saved_items of the signed-in user
    savedParts,      \* per page: data of the savedParts query
    saveOps          \* calls on saved_items in flight

pureVars == <<sanIn, sanOut, file, verdict>>
serverVars == <<objects, last>>
galleryVars == <<objects, client, session, images, uploading,
                 alert, log, calls, last>>
partVars == <<partObjects, partImages, uploadingImages, itemurl, partAlert,
              partSession, partOps, moments, savedItems, savedParts,
              saveOps>>
savedVars == <<savedItems, savedParts, saveOps>>
vars == <<sanIn, sanOut, file, verdict, objects, client, session,
          images, uploading, alert, log, calls, last, partObjects, partImages,
          uploadingImages, itemurl, partAlert, partSession, partOps, moments,
          savedItems, savedParts, saveOps>>

----------------------------------------------------------------------------
(* Bounds *)

MaxLen == 4            \* longest enumerated display name
MaxObjects == 2        \* objects the bucket holds at most
MaxBatch == 2          \* paths one remove request names at most
NumUuids == 2          \* distinct random identifiers
NumRands == 1          \* distinct timestamp-suffix names
NumViews == 1          \* view types of VIEW_TYPES in use, from the first
MaxPartOps == 2        \* handlers of the parts page in progress at most
MaxCalls == 1          \* storage calls one session has in flight at most
MaxRace == 2           \* the same, where responses may overtake each other

----------------------------------------------------------------------------
(* Characters *)

UpperCase == <<"A","B","C","D","E","F","G","H","I","J","K","L","M",
               "N","O","P","Q","R","S","T","U","V","W","X","Y","Z">>
LowerCase == <<"a","b","c","d","e","f","g","h","i","j","k","l","m",
               "n","o","p","q","r","s","t","u","v","w","x","y","z">>
Digits == {"0","1","2","3","4","5","6","7","8","9"}
WhiteSpace == {" ", "\t", "\n"}

Range(s) == {s[i] : i \in DOMAIN s}

\* String.prototype.toLowerCase on one character
ToLowerChar(c) ==
    IF \E i \in DOMAIN UpperCase : UpperCase[i] = c
    THEN LowerCase[CHOOSE i \in DOMAIN UpperCase : UpperCase[i] = c]
    ELSE c

toLowerCase(s) == [i \in DOMAIN s |-> ToLowerChar(s[i])]

\* the character class [a-z0-9-]
IsFolderChar(c) == c \in Range(LowerCase) \cup Digits \cup {"-"}

\* s.replace(/C+/g, rep): every maximal run of characters of class C
\* becomes the string rep
RECURSIVE ReplaceRuns(_, _, _)
ReplaceRuns(s, C, rep) ==
    IF s = <<>> THEN <<>>
    ELSE IF s[1] \in C
         THEN IF Len(s) > 1 /\ s[2] \in C
              THEN ReplaceRuns(Tail(s), C, rep)
              ELSE rep \o ReplaceRuns(Tail(s), C, rep)
         ELSE <<s[1]>> \o ReplaceRuns(Tail(s), C, rep)

\* s.replace(/[^a-z0-9-]/g, '')
RemoveInvalid(s) == SelectSeq(s, IsFolderChar)

\* s.replace(/^-+/, '')
RECURSIVE TrimStart(_)
TrimStart(s) ==
    IF s # <<>> /\ s[1] = "-" THEN TrimStart(Tail(s)) ELSE s

\* s.replace(/-+$/, '')
RECURSIVE TrimEnd(_)
TrimEnd(s) ==
    IF s # <<>> /\ s[Len(s)] = "-"
    THEN TrimEnd(SubSeq(s, 1, Len(s) - 1))
    ELSE s

\* a slip in the order of the steps: the hyphens are trimmed before the
\* invalid characters are removed
sanitizeTrimEarly(name) ==
    RemoveInvalid(
      TrimEnd(TrimStart(
        ReplaceRuns(ReplaceRuns(toLowerCase(name), WhiteSpace, <<"-">>),
                    {"-"}, <<"-">>))))

\* a slip in the whitespace step: /\s/g instead of /\s+/g, and no collapse
sanitizeNoCollapse(name) ==
    TrimEnd(TrimStart(
      RemoveInvalid(
        [i \in DOMAIN name |->
           IF toLowerCase(name)[i] \in WhiteSpace THEN "-"
           ELSE toLowerCase(name)[i]])))

sanitizeFolderName(name) ==
    TrimEnd(
      TrimStart(
        ReplaceRuns(
          RemoveInvalid(
            ReplaceRuns(toLowerCase(name), WhiteSpace, <<"-">>)),
          {"-"}, <<"-">>)))

----------------------------------------------------------------------------
(* Validation rules of the gallery uploadImage *)

maxSize == 5 * 1024 * 1024

validExtensions ==
    { <<"j","p","g">>, <<"j","p","e","g">>, <<"p","n","g">>,
      <<"g","i","f">>, <<"w","e","b","p">> }

ImagePrefix == <<"i","m","a","g","e","/">>

\* String.prototype.startsWith
startsWith(s, prefix) ==
    /\ Len(s) >= Len(prefix)
    /\ SubSeq(s, 1, Len(prefix)) = prefix

\* String.prototype.split(sep) for a one-character separator: the pieces
\* between the separators, empty pieces included
RECURSIVE split(_, _, _)
split(s, sep, cur) ==
    IF s = <<>> THEN <<cur>>
    ELSE IF s[1] = sep
         THEN <<cur>> \o split(Tail(s), sep, <<>>)
         ELSE split(Tail(s), sep, Append(cur, s[1]))

\* Array.prototype.pop on the array split returns
pop(a) == a[Len(a)]

\* file.name.split('.').pop()?.toLowerCase()
fileExt(name) == toLowerCase(pop(split(name, ".", <<>>)))


\* the message of the first rule the file fails, "none" when it passes all
ValidationError(f) ==
    IF ~startsWith(f.type, ImagePrefix)
    THEN "Selected file must be an image."
    ELSE IF f.size > maxSize
    THEN "Image size must be less than 5MB."
    ELSE IF fileExt(f.name) = <<>> \/ fileExt(f.name) \notin validExtensions
    THEN "Invalid file type. Supported formats: JPG, PNG, GIF, WebP"
    ELSE "none"

----------------------------------------------------------------------------
(* Principals, paths and the bucket *)

\* A principal is {user.id, user.user_metadata.full_name}.  The display
\* name of the first sanitizes to its own identifier, the display name of
\* the second sanitizes to the identifier of the first, the display name
\* of the third sanitizes to the empty string.
Alice == [id |-> <<"u","1">>, full_name |-> <<"U","1">>]
Bob == [id |-> <<"u","2">>, full_name |-> <<"u","1","!">>]
Carol == [id |-> <<"u","3">>, full_name |-> <<"!"," ">>]

Principals == {Alice, Bob, Carol}

Null == [id |-> <<>>, full_name |-> <<>>]

\* the gallery variant a browser session runs and the principal who signs
\* in there
Logins ==
    [client : {"slug"}, user : Principals] \cup
    {[client |-> "id", user |-> Alice]}

\* principals who use the bucket through other clients as well
Others == {Alice}

Undefined == <<"u","n","d","e","f","i","n","e","d">>

Sessions == {1}

\* browser pages that show the parts form of the same part
ThisPage == "this"
Pages == {ThisPage, "other"}

\* An object name is folder/leaf; a leaf is token.ext
Path(folder, leaf) == [folder |-> folder, leaf |-> leaf]
Leaf(tok, ext) == [tok |-> tok, ext |-> ext]
NoLeaf == Leaf(<<>>, <<>>)
PathOf(o) == Path(o.folder, o.leaf)
Paths(objs) == {PathOf(o) : o \in objs}

\* storage.foldername(name): the folder segments of an object name
foldername(path) == <<path.folder>>

\* a policy that leaves the folder condition out
AnyFolder(uid, path) == uid # <<>>

\* (storage.foldername(name))[1] = auth.uid()::text, the condition shared
\* by the INSERT, SELECT and DELETE policies
OwnFolder(uid, path) == foldername(path)[1] = uid

\* list options of getImages
ListLimit == 100

\* a SELECT without the policy: every row of the folder
VisibleAll(uid, folder) ==
    LET rows == {o \in objects : o.folder = folder}
    IN  IF Cardinality(rows) <= ListLimit THEN rows
        ELSE CHOOSE cut \in SUBSET rows : Cardinality(cut) = ListLimit

\* rows of one folder the SELECT policy lets uid see, cut at the limit;
\* the order of the rows is not represented
Visible(uid, folder) ==
    LET rows == {o \in objects : o.folder = folder /\ OwnFolder(uid, PathOf(o))}
    IN  IF Cardinality(rows) <= ListLimit THEN rows
        ELSE CHOOSE cut \in SUBSET rows : Cardinality(cut) = ListLimit

Entry(o) == [name |-> o.leaf]

\* an INSERT that skips the duplicate check (upsert)
InsertOutcomeUpsert(uid, path) ==
    IF ~OwnFolder(uid, path) THEN "Forbidden" ELSE "none"

\* outcome of INSERT (upload without upsert) by uid
InsertOutcome(uid, path) ==
    IF ~OwnFolder(uid, path) THEN "Forbidden"
    ELSE IF path \in Paths(objects) THEN "Conflict"
    ELSE "none"

Inserted(uid, path) ==
    IF InsertOutcome(uid, path) = "none"
    THEN objects \cup {[folder |-> path.folder, leaf |-> path.leaf]}
    ELSE objects

\* a DELETE that ignores the policy
DeletableAll(uid, paths) == {o \in objects : PathOf(o) \in paths}

\* rows a DELETE by uid of the given names removes: the USING clause
\* filters the rows, it raises no error
Deletable(uid, paths) ==
    {o \in objects : PathOf(o) \in paths /\ OwnFolder(uid, PathOf(o))}

\* what a request did: its arguments, the rows before it was served, its
\* error and the object names it returned
Outcome(op, uid, paths, error, data) ==
    [op |-> op, uid |-> uid, paths |-> paths, before |-> objects,
     error |-> error, data |-> data]

NoOutcome == [op |-> "none", uid |-> <<>>, paths |-> {}, before |-> {},
              error |-> "none", data |-> {}]

----------------------------------------------------------------------------
(* The gallery component (both variants) *)

\* values uuidv4() returns
Uuids == 1..NumUuids

\* values of `${Date.now()}-${Math.random().toString(36).substring(2, 9)}`:
\* two uploads draw the same value when they run in the same millisecond
\* and draw the same suffix
Rands == 1..NumRands

png == <<"p","n","g">>
imagePng == <<"i","m","a","g","e","/","p","n","g">>

\* files the user selects in the gallery
GalleryFiles ==
    { [type |-> imagePng, size |-> maxSize, name |-> <<"a",".","p","n","g">>],
      [type |-> imagePng, size |-> 1, name |-> <<"a",".","P","n","G">>],
      [type |-> imagePng, size |-> maxSize + 1, name |-> <<"a",".","p","n","g">>],
      [type |-> imagePng, size |-> 1, name |-> <<"a",".","t","x","t">>],
      [type |-> <<"t","e","x","t","/","p","l","a","i","n">>, size |-> 1,
       name |-> <<"a",".","p","n","g">>],
      [type |-> imagePng, size |-> 1, name |-> <<"p","n","g">>] }

InFlight(s) == {c \in calls : c.s = s}

\* a storage call of session s sent while the requests cs are in flight;
\* the request carries the access token of the signed-in principal, and
\* `copy` tells it from the requests in flight that are otherwise equal
Call(s, uid, op, folder, leaf, from, cs) ==
    LET req(n) == [s |-> s, copy |-> n, op |-> op, uid |-> uid,
                   folder |-> folder, leaf |-> leaf, from |-> from,
                   stage |-> "sent", data |-> {}]
    IN  req(CHOOSE n \in 1..(Cardinality(cs) + 1) :
                /\ req(n) \notin cs
                /\ \A m \in 1..(n - 1) : req(m) \in cs)

\* the folder key uploadImage and deleteImage compute from the session
FolderKey(s, sess) ==
    IF client[s] = "id" THEN sess.id
    ELSE sanitizeFolderName(sess.full_name)

\* a getImages that always reads the `session` of the first render
getImagesFirstRender(s, uid, sess, from, cs) ==
    IF client[s] = "id"
    THEN {Call(s, uid, "list", Undefined, NoLeaf, from, cs)}
    ELSE {}

\* the list call getImages issues when the `session` it reads is sess and
\* the signed-in principal is uid: the identifier variant lists
\* "undefined/" when sess is null, the slug variant throws inside its try
\* block and issues nothing
getImages(s, uid, sess, from, cs) ==
    IF client[s] = "id"
    THEN {Call(s, uid, "list", IF sess = Null THEN Undefined ELSE sess.id,
               NoLeaf, from, cs)}
    ELSE IF sess = Null THEN {}
         ELSE {Call(s, uid, "list", sanitizeFolderName(sess.full_name),
                    NoLeaf, from, cs)}

\* the generated file name without its extension, a fresh draw at each
\* upload
Tokens(s) ==
    IF client[s] = "id" THEN {<<u>> : u \in Uuids}
    ELSE {<<r>> : r \in Rands}

NoFile == [type |-> <<>>, size |-> 0, name |-> <<>>]

ValidateIdle == file = NoFile /\ verdict = "unchecked"

SanitizeIdle == sanIn = <<>> /\ sanOut = <<>>

ServerIdle == objects = {} /\ last = NoOutcome

ClientIdle ==
    /\ client = [s \in Sessions |-> "id"]
    /\ session = [s \in Sessions |-> Null]
    /\ images = [s \in Sessions |-> {}]
    /\ uploading = [s \in Sessions |-> FALSE]
    /\ alert = [s \in Sessions |-> "none"]
    /\ log = [s \in Sessions |-> "none"]
    /\ calls = {}

GalleryIdle == ServerIdle /\ ClientIdle

PartsIdle ==
    /\ partObjects = {}
    /\ partImages = [pg \in Pages |-> {}]
    /\ uploadingImages = [pg \in Pages |-> {}]
    /\ itemurl = {}
    /\ partAlert = [pg \in Pages |-> "none"]
    /\ partSession = [pg \in Pages |-> FALSE]
    /\ partOps = {}
    /\ moments = {{}}
    /\ savedItems = {}
    /\ savedParts = [pg \in Pages |-> {}]
    /\ saveOps = {}

Init ==
    /\ ServerIdle
    /\ client \in [Sessions -> {"id", "slug"}]
    /\ session = [s \in Sessions |-> Null]
    /\ images = [s \in Sessions |-> {}]
    /\ uploading = [s \in Sessions |-> FALSE]
    /\ alert = [s \in Sessions |-> "none"]
    /\ log = [s \in Sessions |-> "none"]
    /\ calls = {}
    /\ SanitizeIdle
    /\ ValidateIdle
    /\ PartsIdle

\* alert() is modal: the page of session s runs no script while one is shown
Running(s) == alert[s] = "none"

\* the user closes the alert
Dismiss(s) ==
    /\ alert[s] # "none"
    /\ alert' = [alert EXCEPT ![s] = "none"]
    /\ UNCHANGED <<serverVars, client, log, session, images, uploading, calls>>

\* useEffect: the getSession result or an auth state change carries the
\* session of principal p; the callback was created by the first render,
\* so the getImages it calls reads the `session` of that render, null
SignIn(s, p) ==
    /\ [client |-> client[s], user |-> p] \in Logins
    /\ Running(s)
    /\ session[s] = Null
    /\ session' = [session EXCEPT ![s] = p]
    /\ calls' = calls \cup getImages(s, p.id, Null, "effect", calls)
    /\ log' = [log EXCEPT
                 ![s] = IF getImages(s, p.id, Null, "effect", calls) = {}
                        THEN "Error fetching images:" ELSE @]
    /\ UNCHANGED <<serverVars, client, images, uploading, alert>>

\* uploadImage with no file in the event
UploadNoFile(s) ==
    /\ Running(s)
    /\ session[s] # Null
    /\ ~uploading[s]
    /\ alert' = [alert EXCEPT ![s] = "You must select an image to upload."]
    /\ UNCHANGED <<serverVars, client, log, session, images, uploading, calls>>

\* an uploadImage whose file input is not disabled during an upload
UploadImageAnyTime(s, f) ==
    /\ Running(s)
    /\ session[s] # Null
    /\ IF ValidationError(f) # "none"
       THEN /\ alert' = [alert EXCEPT ![s] = ValidationError(f)]
            /\ UNCHANGED <<calls, uploading>>
       ELSE /\ \E tok \in Tokens(s) :
                 calls' = calls \cup
                     {Call(s, session[s].id, "upload", FolderKey(s, session[s]),
                           Leaf(tok, fileExt(f.name)), "upload", calls)}
            /\ uploading' = [uploading EXCEPT ![s] = TRUE]
            /\ UNCHANGED alert
    /\ UNCHANGED <<serverVars, client, log, session, images>>

\* uploadImage up to its await of the storage upload
UploadImage(s, f) ==
    /\ Running(s)
    /\ session[s] # Null
    /\ ~uploading[s]
    /\ IF ValidationError(f) # "none"
       THEN /\ alert' = [alert EXCEPT ![s] = ValidationError(f)]
            /\ UNCHANGED <<calls, uploading>>
       ELSE /\ \E tok \in Tokens(s) :
                 calls' = calls \cup
                     {Call(s, session[s].id, "upload", FolderKey(s, session[s]),
                           Leaf(tok, fileExt(f.name)), "upload", calls)}
            /\ uploading' = [uploading EXCEPT ![s] = TRUE]
            /\ UNCHANGED alert
    /\ UNCHANGED <<serverVars, client, log, session, images>>

\* deleteImage of a displayed image, up to its await of the storage remove
DeleteImage(s, e) ==
    /\ Running(s)
    /\ session[s] # Null
    /\ e \in images[s]
    /\ calls' = calls \cup
          {Call(s, session[s].id, "remove", FolderKey(s, session[s]), e.name,
                "delete", calls)}
    /\ UNCHANGED <<serverVars, client, log, session, images, uploading, alert>>

\* the INSERT of an upload without upsert, under the policy
InsertRow(uid, path) ==
    /\ InsertOutcome(uid, path) = "none" => Cardinality(objects) < MaxObjects
    /\ objects' = Inserted(uid, path)

\* the DELETE of a remove, under the policy
DeleteRows(uid, paths) == objects' = objects \ Deletable(uid, paths)

\* The storage upload of uploadImage is served and uploadImage resumes: it
\* throws the error to its catch block, or calls getImages and awaits it.
\* The handler still reads the `session` of the render it was created in.
ServeUpload(c) ==
    LET path == Path(c.folder, c.leaf)
        error == InsertOutcome(c.uid, path)
        sess == CHOOSE p \in Principals : p.id = c.uid
    IN  /\ c \in calls /\ c.op = "upload" /\ c.stage = "sent"
        /\ Running(c.s)
        /\ InsertRow(c.uid, path)
        /\ IF error # "none"
           THEN /\ alert' = [alert EXCEPT ![c.s] = error]
                /\ log' = [log EXCEPT ![c.s] = "Error uploading image:"]
                /\ uploading' = [uploading EXCEPT ![c.s] = FALSE]
                /\ calls' = calls \ {c}
           ELSE /\ calls' = (calls \ {c}) \cup
                           getImages(c.s, c.uid, sess, "upload", calls \ {c})
                /\ UNCHANGED <<alert, log, uploading>>
        /\ UNCHANGED <<last, client, session, images>>

\* a deleteImage that does not call getImages
ServeRemoveQuiet(c) ==
    LET path == Path(c.folder, c.leaf)
    IN  /\ c \in calls /\ c.op = "remove" /\ c.stage = "sent"
        /\ Running(c.s)
        /\ DeleteRows(c.uid, {path})
        /\ calls' = calls \ {c}
        /\ UNCHANGED <<last, client, log, session, images, uploading, alert>>

\* The storage remove of deleteImage is served and deleteImage resumes:
\* getImages is called and not awaited
ServeRemove(c) ==
    LET path == Path(c.folder, c.leaf)
        sess == CHOOSE p \in Principals : p.id = c.uid
    IN  /\ c \in calls /\ c.op = "remove" /\ c.stage = "sent"
        /\ Running(c.s)
        /\ DeleteRows(c.uid, {path})
        /\ calls' = (calls \ {c}) \cup
                   getImages(c.s, c.uid, sess, "delete", calls \ {c})
        /\ UNCHANGED <<last, client, log, session, images, uploading, alert>>

\* The storage list of getImages is served (SELECT under the policy)
ServeList(c) ==
    /\ c \in calls /\ c.op = "list" /\ c.stage = "sent"
    /\ calls' = (calls \ {c}) \cup
          {[c EXCEPT !.stage = "served",
                     !.data = {Entry(o) : o \in Visible(c.uid, c.folder)}]}
    /\ UNCHANGED <<serverVars, client, log, session, images, uploading, alert>>

\* getImages resumes with the list result: setImages(data); an uploadImage
\* that awaited it reaches its finally block
DeliverList(c) ==
    /\ c \in calls /\ c.op = "list" /\ c.stage = "served"
    /\ Running(c.s)
    /\ images' = [images EXCEPT ![c.s] = c.data]
    /\ uploading' = [uploading EXCEPT
                       ![c.s] = IF c.from = "upload" THEN FALSE ELSE @]
    /\ calls' = calls \ {c}
    /\ UNCHANGED <<serverVars, client, log, session, alert>>

\* a handler that sends a failed upload or remove again by itself
FailCallRetry(c) ==
    /\ c \in calls /\ c.stage = "sent"
    /\ Running(c.s)
    /\ calls' = (calls \ {c}) \cup
          (IF c.op = "list" THEN {}
           ELSE {Call(c.s, c.uid, c.op, c.folder, c.leaf, c.from, calls)})
    /\ UNCHANGED <<serverVars, client, log, session, images, uploading, alert>>

\* a getImages whose catch block empties the displayed images
FailCallClears(c) ==
    /\ c \in calls /\ c.stage = "sent"
    /\ Running(c.s)
    /\ calls' = calls \ {c}
    /\ alert' = [alert EXCEPT
                   ![c.s] = IF c.op = "upload" THEN "Unavailable"
                            ELSE IF c.op = "remove" THEN "Error deleting image"
                            ELSE @]
    /\ log' = [log EXCEPT
                 ![c.s] = IF c.op = "upload" THEN "Error uploading image:"
                          ELSE IF c.op = "remove" THEN "Error deleting image:"
                          ELSE "Error fetching images:"]
    /\ images' = [images EXCEPT ![c.s] = IF c.op = "list" THEN {} ELSE @]
    /\ uploading' = [uploading EXCEPT
                       ![c.s] = IF c.from = "upload" THEN FALSE ELSE @]
    /\ UNCHANGED <<serverVars, client, session>>

\* A storage call fails in transport and its handler resumes with the
\* error: uploadImage and deleteImage alert, getImages only logs
FailCall(c) ==
    /\ c \in calls /\ c.stage = "sent"
    /\ Running(c.s)
    /\ calls' = calls \ {c}
    /\ alert' = [alert EXCEPT
                   ![c.s] = IF c.op = "upload" THEN "Unavailable"
                            ELSE IF c.op = "remove" THEN "Error deleting image"
                            ELSE @]
    /\ log' = [log EXCEPT
                 ![c.s] = IF c.op = "upload" THEN "Error uploading image:"
                          ELSE IF c.op = "remove" THEN "Error deleting image:"
                          ELSE "Error fetching images:"]
    /\ uploading' = [uploading EXCEPT
                       ![c.s] = IF c.from = "upload" THEN FALSE ELSE @]
    /\ UNCHANGED <<serverVars, client, session, images>>

\* Requests other clients of the bucket send while the gallery runs
Folders == {p.id : p \in Principals} \cup {<<>>}
ProbeLeaf == Leaf(<<0>>, png)

OtherInsert(p, path) ==
    /\ InsertRow(p.id, path)
    /\ UNCHANGED <<last, client, log, session, images, uploading, alert, calls>>

OtherDelete(p, paths) ==
    /\ DeleteRows(p.id, paths)
    /\ UNCHANGED <<last, client, log, session, images, uploading, alert, calls>>

\* the page of session s starts a handler only while fewer than n storage
\* calls of s are in flight
Room(s, n) == Cardinality(InFlight(s)) < n

Next ==
    \/ \E s \in Sessions, p \in Principals :
          Room(s, MaxCalls) /\ SignIn(s, p) /\ UNCHANGED <<pureVars, partVars>>
    \/ \E s \in Sessions : Dismiss(s) /\ UNCHANGED <<pureVars, partVars>>
    \/ \E s \in Sessions : UploadNoFile(s) /\ UNCHANGED <<pureVars, partVars>>
    \/ \E s \in Sessions, f \in GalleryFiles :
          Room(s, MaxCalls) /\ UploadImage(s, f) /\ UNCHANGED <<pureVars, partVars>>
    \/ \E s \in Sessions : \E e \in images[s] :
          Room(s, MaxCalls) /\ DeleteImage(s, e) /\ UNCHANGED <<pureVars, partVars>>
    \/ \E c \in calls : ServeUpload(c) /\ UNCHANGED <<pureVars, partVars>>
    \/ \E c \in calls : ServeRemove(c) /\ UNCHANGED <<pureVars, partVars>>
    \/ \E c \in calls : ServeList(c) /\ UNCHANGED <<pureVars, partVars>>
    \/ \E c \in calls : DeliverList(c) /\ UNCHANGED <<pureVars, partVars>>
    \/ \E c \in calls : FailCall(c) /\ UNCHANGED <<pureVars, partVars>>
    \/ \E p \in Others, path \in {Path(f, ProbeLeaf) : f \in Folders} : OtherInsert(p, path) /\ UNCHANGED <<pureVars, partVars>>
    \/ \E p \in Others, path \in Paths(objects) :
          OtherDelete(p, {path}) /\ UNCHANGED <<pureVars, partVars>>

Spec == Init /\ [][Next]_vars

\* Specification of one gallery alone in its bucket: no other client, and
\* up to MaxRace calls of the session in flight at once
NextRace ==
    \/ \E s \in Sessions, p \in Principals :
          Room(s, MaxRace) /\ SignIn(s, p) /\ UNCHANGED <<pureVars, partVars>>
    \/ \E s \in Sessions : Dismiss(s) /\ UNCHANGED <<pureVars, partVars>>
    \/ \E s \in Sessions, f \in GalleryFiles :
          Room(s, MaxRace) /\ UploadImage(s, f) /\ UNCHANGED <<pureVars, partVars>>
    \/ \E s \in Sessions : \E e \in images[s] :
          Room(s, MaxRace) /\ DeleteImage(s, e) /\ UNCHANGED <<pureVars, partVars>>
    \/ \E c \in calls : ServeUpload(c) /\ UNCHANGED <<pureVars, partVars>>
    \/ \E c \in calls : ServeRemove(c) /\ UNCHANGED <<pureVars, partVars>>
    \/ \E c \in calls : ServeList(c) /\ UNCHANGED <<pureVars, partVars>>
    \/ \E c \in calls : DeliverList(c) /\ UNCHANGED <<pureVars, partVars>>
    \/ \E c \in calls : FailCall(c) /\ UNCHANGED <<pureVars, partVars>>

SpecRace == Init /\ [][NextRace]_vars

----------------------------------------------------------------------------
(* The parts page: view-scoped images in bucket part-images.  The policies *)
(* of the migration name bucket everything-automotive.com only; a request  *)
(* to part-images succeeds or fails as the backend decides.                *)

VIEW_TYPES ==
    << <<"m","a","i","n">>, <<"f","r","o","n","t">>, <<"b","a","c","k">>,
       <<"l","e","f","t">>, <<"r","i","g","h","t">>, <<"t","o","p">> >>

Views == {VIEW_TYPES[i] : i \in 1..NumViews}

currentPartSlug == <<"p","a","r","t","-","i","d">>
jpgSuffix == <<"_","j","p","g">>
keepName == <<".","k","e","e","p">>
mainFolder == <<"m","a","i","n","_","j","p","g">>

\* files the user selects on the parts page; id stands for the content
PartFiles ==
    { [type |-> imagePng, size |-> 1, name |-> <<"a",".","p","n","g">>, id |-> 1],
      [type |-> imagePng, size |-> maxSize + 1,
       name |-> <<"b",".","j","p","g">>, id |-> 2],
      [type |-> <<"t","e","x","t","/","p","l","a","i","n">>, size |-> 1,
       name |-> <<"c",".","p","n","g">>, id |-> 3] }

NoPartFile == [type |-> <<>>, size |-> 0, name |-> <<>>, id |-> 0]

PartPath(folder, name) ==
    [slug |-> currentPartSlug, folder |-> folder, name |-> name]
NoPartPath == PartPath(<<>>, <<>>)

\* `${currentPartSlug}/${viewType}_jpg/${viewType}.${fileExt}` with
\* fileExt = file.name.split('.').pop()
filePath(f, viewType) ==
    PartPath(viewType \o jpgSuffix,
             viewType \o <<".">> \o pop(split(f.name, ".", <<>>)))

\* String.prototype.endsWith
endsWith(s, suffix) ==
    /\ Len(s) >= Len(suffix)
    /\ SubSeq(s, Len(s) - Len(suffix) + 1, Len(s)) = suffix

\* s.replace(pat, ''): the first occurrence of pat is removed
RECURSIVE removeFirst(_, _)
removeFirst(s, pat) ==
    IF s = <<>> THEN <<>>
    ELSE IF startsWith(s, pat) THEN SubSeq(s, Len(pat) + 1, Len(s))
    ELSE <<s[1]>> \o removeFirst(Tail(s), pat)

\* getPublicUrl(path): {storageBaseUrl}/storage/v1/object/public/{bucket}/{path}
getPublicUrl(path) ==
    <<"storage/v1/object/public", "part-images", path>>

\* an upload that stores the file beside the object at the path
UpsertedBeside(path, content) ==
    partObjects \cup {[path |-> path, content |-> content]}

\* upload with upsert: the object at the path is created or replaced
Upserted(path, content) ==
    {o \in partObjects : o.path # path} \cup {[path |-> path, content |-> content]}

\* the folders directly under the part slug
ListedFolders == {o.path.folder : o \in partObjects}

\* the entries the query function makes of the files of one folder
FolderImages(folder) ==
    {[name |-> o.path.name, path |-> o.path,
      viewType |-> removeFirst(folder, jpgSuffix)] :
        o \in {q \in partObjects :
                  /\ q.path.folder = folder
                  /\ ~startsWith(q.path.name, <<".">>)}}

\* a handler or query function of page pg in progress; copy tells apart
\* two runs with the same arguments
PartOp(pg, kind, stage, f, viewType, path) ==
    LET same(n) == {op \in partOps :
                       /\ op.page = pg
                       /\ op.kind = kind /\ op.file = f
                       /\ op.viewType = viewType /\ op.path = path
                       /\ op.copy = n}
    IN  [page |-> pg, kind |-> kind, stage |-> stage, file |-> f,
         viewType |-> viewType, path |-> path,
         copy |-> CHOOSE n \in 1..(Cardinality(partOps) + 1) :
                     /\ same(n) = {}
                     /\ \A k \in 1..(n - 1) : same(k) # {},
         folders |-> {}, acc |-> {}]

PageOps(pg) == {op \in partOps : op.page = pg}

Advance(op, stage) == (partOps \ {op}) \cup {[op EXCEPT !.stage = stage]}

\* page pg is opened by a signed-in user: the component mounts with empty
\* state, the session is set and the partImages query, now enabled, fetches
OpenPartsPage(pg) ==
    /\ PageOps(pg) = {}
    /\ partAlert[pg] = "none"
    /\ partSession' = [partSession EXCEPT ![pg] = TRUE]
    /\ partImages' = [partImages EXCEPT ![pg] = {}]
    /\ uploadingImages' = [uploadingImages EXCEPT ![pg] = {}]
    /\ partOps' = partOps \cup
          {PartOp(pg, "query", "keep", NoPartFile, <<>>, NoPartPath)}
    /\ UNCHANGED <<partObjects, itemurl, partAlert>>

\* handleImageUpload on page pg: its input is shown for a slot that displays
\* neither an image nor an upload in progress; it checks the type and calls
\* uploadPartImage, which runs up to its await of the storage upload
handleImageUpload(pg, f, viewType) ==
    /\ partSession[pg]
    /\ partAlert[pg] = "none"
    /\ ~\E img \in partImages[pg] : img.viewType = viewType
    /\ ~\E up \in uploadingImages[pg] : up.viewType = viewType
    /\ IF ~startsWith(f.type, ImagePrefix)
       THEN /\ partAlert' = [partAlert EXCEPT
                                ![pg] = "Please select an image file"]
            /\ UNCHANGED <<partOps, uploadingImages>>
       ELSE /\ uploadingImages' =
                  [uploadingImages EXCEPT
                      ![pg] = @ \cup {[file |-> f, viewType |-> viewType]}]
            /\ partOps' = partOps \cup
                  {PartOp(pg, "upload", "upload", f, viewType,
                          filePath(f, viewType))}
            /\ UNCHANGED partAlert
    /\ UNCHANGED <<partObjects, partImages, itemurl, partSession>>

\* alert() is modal: no handler of the page resumes while it is shown; the
\* user closes it
DismissPart(pg) ==
    /\ partAlert[pg] # "none"
    /\ partAlert' = [partAlert EXCEPT ![pg] = "none"]
    /\ UNCHANGED <<partObjects, partImages, uploadingImages, itemurl,
                   partSession, partOps>>

\* the storage upload of uploadPartImage succeeds
UploadStored(op) ==
    /\ op \in partOps /\ op.kind = "upload" /\ op.stage = "upload"
    /\ partAlert[op.page] = "none"
    /\ partObjects' = Upserted(op.path, op.file.id)
    /\ partOps' = Advance(op, IF op.viewType = VIEW_TYPES[1]
                              THEN "meta" ELSE "keep")
    /\ UNCHANGED <<partImages, uploadingImages, itemurl, partAlert, partSession>>

\* the storage upload of uploadPartImage fails: the error is logged and
\* thrown again, the finally block drops the upload from uploadingImages
UploadRefused(op) ==
    /\ op \in partOps /\ op.kind = "upload" /\ op.stage = "upload"
    /\ partAlert[op.page] = "none"
    /\ partOps' = partOps \ {op}
    /\ uploadingImages' =
          [uploadingImages EXCEPT
              ![op.page] = {up \in @ : ~(up.file = op.file
                                         /\ up.viewType = op.viewType)}]
    /\ UNCHANGED <<partObjects, partImages, itemurl, partAlert, partSession>>

\* deletePartImage of the image page pg displays, up to its await of the
\* remove
deletePartImage(pg, img) ==
    /\ partSession[pg]
    /\ partAlert[pg] = "none"
    /\ img \in partImages[pg]
    /\ partOps' = partOps \cup
          {PartOp(pg, "delete", "remove", NoPartFile, img.viewType, img.path)}
    /\ UNCHANGED <<partObjects, partImages, uploadingImages, itemurl,
                   partAlert, partSession>>

\* the storage remove of deletePartImage succeeds
RemoveDone(op) ==
    /\ op \in partOps /\ op.kind = "delete" /\ op.stage = "remove"
    /\ partAlert[op.page] = "none"
    /\ partObjects' = {o \in partObjects : o.path # op.path}
    /\ partOps' = Advance(op, IF op.path.folder = mainFolder
                              THEN "meta" ELSE "keep")
    /\ UNCHANGED <<partImages, uploadingImages, itemurl, partAlert, partSession>>

\* the storage remove of deletePartImage fails: logged and thrown again
RemoveRefused(op) ==
    /\ op \in partOps /\ op.kind = "delete" /\ op.stage = "remove"
    /\ partAlert[op.page] = "none"
    /\ partOps' = partOps \ {op}
    /\ UNCHANGED <<partObjects, partImages, uploadingImages, itemurl,
                   partAlert, partSession>>

\* the write to vehicle_parts: the upsert of itemurl after a main upload,
\* the update to null after a main delete; its result is not inspected
MetaWritten(op, ok) ==
    /\ op \in partOps /\ op.stage = "meta"
    /\ partAlert[op.page] = "none"
    /\ itemurl' = IF ~ok THEN itemurl
                  ELSE IF op.kind = "upload" THEN {getPublicUrl(op.path)}
                  ELSE {}
    /\ partOps' = Advance(op, "keep")
    /\ UNCHANGED <<partObjects, partImages, uploadingImages, partAlert,
                   partSession>>

\* query function, first await: the placeholder uploads; those of the view
\* types in written succeed, a failure of the others is caught and dropped
KeepWritten(op, written) ==
    /\ op \in partOps /\ op.stage = "keep"
    /\ partAlert[op.page] = "none"
    /\ partObjects' =
          {o \in partObjects :
              ~\E v \in written : o.path = PartPath(v \o jpgSuffix, keepName)}
          \cup {[path |-> PartPath(v \o jpgSuffix, keepName), content |-> 0] :
                   v \in written}
    /\ partOps' = Advance(op, "folders")
    /\ UNCHANGED <<partImages, uploadingImages, itemurl, partAlert, partSession>>

\* the query settles with images.flat() in the same turn as the last list
\* response; uploadPartImage then runs its finally block
Settled(op, data) ==
    /\ partImages' = [partImages EXCEPT ![op.page] = data]
    /\ uploadingImages' =
          IF op.kind = "upload"
          THEN [uploadingImages EXCEPT
                   ![op.page] = {up \in @ : ~(up.file = op.file
                                              /\ up.viewType = op.viewType)}]
          ELSE uploadingImages
    /\ partOps' = partOps \ {op}

\* query function, second await: the list of the part slug; a failed list
\* leaves folders null, which is read as no folder
FoldersListed(op, ok) ==
    /\ op \in partOps /\ op.stage = "folders"
    /\ partAlert[op.page] = "none"
    /\ LET folders == IF ok THEN {f \in ListedFolders : endsWith(f, jpgSuffix)}
                      ELSE {}
       IN  IF folders = {}
           THEN Settled(op, {})
           ELSE /\ partOps' = (partOps \ {op}) \cup
                      {[op EXCEPT !.stage = "files", !.folders = folders]}
                /\ UNCHANGED <<partImages, uploadingImages>>
    /\ UNCHANGED <<partObjects, itemurl, partAlert, partSession>>

\* query function, third await: the list of one folder; a failed list gives
\* no image for it
FilesListed(op, folder, ok) ==
    /\ op \in partOps /\ op.stage = "files" /\ folder \in op.folders
    /\ partAlert[op.page] = "none"
    /\ LET acc == op.acc \cup (IF ok THEN FolderImages(folder) ELSE {})
       IN  IF op.folders = {folder}
           THEN Settled(op, acc)
           ELSE /\ partOps' = (partOps \ {op}) \cup
                      {[op EXCEPT !.folders = @ \ {folder}, !.acc = acc]}
                /\ UNCHANGED <<partImages, uploadingImages>>
    /\ UNCHANGED <<partObjects, itemurl, partAlert, partSession>>

InitParts ==
    /\ GalleryIdle
    /\ SanitizeIdle
    /\ ValidateIdle
    /\ PartsIdle

NextParts ==
    \/ OpenPartsPage(ThisPage) /\ UNCHANGED <<pureVars, galleryVars, moments, savedVars>>
    \/ \E f \in PartFiles, v \in Views :
          /\ Cardinality(partOps) < MaxPartOps
          /\ handleImageUpload(ThisPage, f, v)
          /\ UNCHANGED <<pureVars, galleryVars, moments, savedVars>>
    \/ DismissPart(ThisPage) /\ UNCHANGED <<pureVars, galleryVars, moments, savedVars>>
    \/ \E op \in partOps : UploadStored(op) /\ UNCHANGED <<pureVars, galleryVars, moments, savedVars>>
    \/ \E op \in partOps : UploadRefused(op) /\ UNCHANGED <<pureVars, galleryVars, moments, savedVars>>
    \/ \E img \in partImages[ThisPage] :
          /\ Cardinality(partOps) < MaxPartOps
          /\ deletePartImage(ThisPage, img)
          /\ UNCHANGED <<pureVars, galleryVars, moments, savedVars>>
    \/ \E op \in partOps : RemoveDone(op) /\ UNCHANGED <<pureVars, galleryVars, moments, savedVars>>
    \/ \E op \in partOps : RemoveRefused(op) /\ UNCHANGED <<pureVars, galleryVars, moments, savedVars>>
    \/ \E op \in partOps, ok \in BOOLEAN :
          MetaWritten(op, ok) /\ UNCHANGED <<pureVars, galleryVars, moments, savedVars>>
    \/ \E op \in partOps, written \in SUBSET Views :
          KeepWritten(op, written) /\ UNCHANGED <<pureVars, galleryVars, moments, savedVars>>
    \/ \E op \in partOps, ok \in BOOLEAN :
          FoldersListed(op, ok) /\ UNCHANGED <<pureVars, galleryVars, moments, savedVars>>
    \/ \E op \in partOps : \E folder \in op.folders, ok \in BOOLEAN :
          FilesListed(op, folder, ok) /\ UNCHANGED <<pureVars, galleryVars, moments, savedVars>>

SpecParts == InitParts /\ [][NextParts]_vars

----------------------------------------------------------------------------
(* Specification of the main slot edited from two pages: each page is     *)
(* opened, and once it has loaded its user picks an image for the slot;    *)
(* the placeholder uploads of the query succeed.                           *)

\* files the users pick: two with the same extension and different
\* content, one with another extension
SlotFiles ==
    { [type |-> imagePng, size |-> 1, name |-> <<"a",".","p","n","g">>, id |-> 1],
      [type |-> imagePng, size |-> 1, name |-> <<"d",".","p","n","g">>, id |-> 4],
      [type |-> imagePng, size |-> 1, name |-> <<"b",".","j","p","g">>, id |-> 2] }

NextSlot ==
    \/ \E pg \in Pages : OpenPartsPage(pg) /\ UNCHANGED <<pureVars, galleryVars, moments, savedVars>>
    \/ \E pg \in Pages, f \in SlotFiles :
          /\ PageOps(pg) = {}
          /\ handleImageUpload(pg, f, VIEW_TYPES[1])
          /\ UNCHANGED <<pureVars, galleryVars, moments, savedVars>>
    \/ \E op \in partOps : UploadStored(op) /\ UNCHANGED <<pureVars, galleryVars, moments, savedVars>>
    \/ \E op \in partOps : UploadRefused(op) /\ UNCHANGED <<pureVars, galleryVars, moments, savedVars>>
    \/ \E op \in partOps, ok \in BOOLEAN :
          MetaWritten(op, ok) /\ UNCHANGED <<pureVars, galleryVars, moments, savedVars>>
    \/ \E op \in partOps :
          KeepWritten(op, Views) /\ UNCHANGED <<pureVars, galleryVars, moments, savedVars>>
    \/ \E op \in partOps, ok \in BOOLEAN :
          FoldersListed(op, ok) /\ UNCHANGED <<pureVars, galleryVars, moments, savedVars>>
    \/ \E op \in partOps : \E folder \in op.folders, ok \in BOOLEAN :
          FilesListed(op, folder, ok) /\ UNCHANGED <<pureVars, galleryVars, moments, savedVars>>

SpecSlot == InitParts /\ [][NextSlot]_vars

----------------------------------------------------------------------------
(* Specification of the partImages query beside uploads to two slots of    *)
(* one page; no request fails.  Every step records the listing the folders *)
(* of the part then have.                                                  *)

SnapViews == {VIEW_TYPES[1], VIEW_TYPES[2]}

\* what a list of every view folder would return at this moment
Actual ==
    UNION {FolderImages(folder) :
              folder \in {f \in ListedFolders : endsWith(f, jpgSuffix)}}

Recorded == moments' = moments \cup {Actual'}

NextSnapshot ==
    \/ /\ OpenPartsPage(ThisPage)
       /\ Recorded /\ UNCHANGED <<pureVars, galleryVars, savedVars>>
    \/ \E f \in {g \in PartFiles : g.id = 1}, v \in SnapViews :
          /\ Cardinality(partOps) < MaxPartOps
          /\ handleImageUpload(ThisPage, f, v)
          /\ Recorded /\ UNCHANGED <<pureVars, galleryVars, savedVars>>
    \/ \E op \in partOps :
          UploadStored(op) /\ Recorded /\ UNCHANGED <<pureVars, galleryVars, savedVars>>
    \/ \E op \in partOps :
          MetaWritten(op, TRUE) /\ Recorded /\ UNCHANGED <<pureVars, galleryVars, savedVars>>
    \/ \E op \in partOps :
          KeepWritten(op, SnapViews) /\ Recorded /\ UNCHANGED <<pureVars, galleryVars, savedVars>>
    \/ \E op \in partOps :
          FoldersListed(op, TRUE) /\ Recorded /\ UNCHANGED <<pureVars, galleryVars, savedVars>>
    \/ \E op \in partOps : \E folder \in op.folders :
          FilesListed(op, folder, TRUE)
          /\ Recorded /\ UNCHANGED <<pureVars, galleryVars, savedVars>>

SpecSnapshot == InitParts /\ [][NextSnapshot]_vars

----------------------------------------------------------------------------
(* The Save Part button of the parts page: table saved_items, the          *)
(* savedParts query and toggleSaveMutation.  The pages belong to one       *)
(* signed-in user; the image state of the page plays no part.              *)

imageVars == <<partObjects, partImages, uploadingImages, itemurl, partAlert,
               partOps, moments>>

\* a call on saved_items sent by page pg
SaveOp(pg, kind) == [page |-> pg, kind |-> kind, stage |-> "sent", data |-> {}]

\* toggleSaveMutation.isLoading
isLoading(pg) ==
    \E op \in saveOps : op.page = pg /\ op.kind \in {"insert", "delete"}

\* page pg is opened by the signed-in user: the session is set and the
\* savedParts query, now enabled, fetches
OpenSavedPage(pg) ==
    /\ ~partSession[pg]
    /\ partSession' = [partSession EXCEPT ![pg] = TRUE]
    /\ saveOps' = saveOps \cup {SaveOp(pg, "select")}
    /\ UNCHANGED <<savedItems, savedParts>>

\* the Save Part button, shown to a signed-in user and disabled while the
\* mutation is loading: mutationFn reads savedParts and sends the delete
\* or the insert
toggleSaveMutation(pg) ==
    /\ partSession[pg]
    /\ ~isLoading(pg)
    /\ saveOps' = saveOps \cup
          {SaveOp(pg, IF currentPartSlug \in savedParts[pg]
                      THEN "delete" ELSE "insert")}
    /\ UNCHANGED <<savedItems, savedParts, partSession>>

\* refetchSavedParts while the calls ops are in flight: the query runs one
\* fetch at a time, so a fetch in flight is joined or is replaced
refetchSavedParts(pg, ops) ==
    LET others == {op \in ops : ~(op.page = pg /\ op.kind = "select")}
    IN  {IF others = ops THEN ops \cup {SaveOp(pg, "select")} ELSE ops,
         others \cup {SaveOp(pg, "select")}}

\* the insert or delete is answered; without error the mutation ends and
\* onSuccess starts the refetch, which nothing awaits; with an error the
\* mutation ends and the table is as before
SaveAnswered(op, ok) ==
    /\ op \in saveOps /\ op.kind \in {"insert", "delete"}
    /\ IF ok
       THEN /\ savedItems' = IF op.kind = "insert"
                             THEN savedItems \cup {currentPartSlug}
                             ELSE savedItems \ {currentPartSlug}
            /\ saveOps' \in refetchSavedParts(op.page, saveOps \ {op})
       ELSE /\ saveOps' = saveOps \ {op}
            /\ UNCHANGED savedItems
    /\ UNCHANGED <<savedParts, partSession>>

\* the select of the savedParts query is served
SelectServed(op) ==
    /\ op \in saveOps /\ op.kind = "select" /\ op.stage = "sent"
    /\ saveOps' = (saveOps \ {op}) \cup
          {[op EXCEPT !.stage = "served", !.data = savedItems]}
    /\ UNCHANGED <<savedItems, savedParts, partSession>>

\* the query settles with the part_id of the rows returned
SelectSettled(op) ==
    /\ op \in saveOps /\ op.kind = "select" /\ op.stage = "served"
    /\ savedParts' = [savedParts EXCEPT ![op.page] = op.data]
    /\ saveOps' = saveOps \ {op}
    /\ UNCHANGED <<savedItems, partSession>>

NextSaved ==
    \/ \E pg \in Pages :
          OpenSavedPage(pg) /\ UNCHANGED <<pureVars, galleryVars, imageVars>>
    \/ \E pg \in Pages :
          toggleSaveMutation(pg) /\ UNCHANGED <<pureVars, galleryVars, imageVars>>
    \/ \E op \in saveOps, ok \in BOOLEAN :
          SaveAnswered(op, ok) /\ UNCHANGED <<pureVars, galleryVars, imageVars>>
    \/ \E op \in saveOps :
          SelectServed(op) /\ UNCHANGED <<pureVars, galleryVars, imageVars>>
    \/ \E op \in saveOps :
          SelectSettled(op) /\ UNCHANGED <<pureVars, galleryVars, imageVars>>

SpecSaved == InitParts /\ [][NextSaved]_vars

----------------------------------------------------------------------------
(* Specification of the policies alone: authenticated principals send      *)
(* upload, list and remove requests for arbitrary object names.            *)

ApiPaths == {Path(f, leaf) : f \in Folders, leaf \in {ProbeLeaf, Leaf(<<1>>, png)}}

\* the path arguments of one remove request
Batches == {ps \in SUBSET ApiPaths : Cardinality(ps) \in 1..MaxBatch}

ApiInsert(p, path) ==
    /\ InsertRow(p.id, path)
    /\ last' = Outcome("upload", p.id, {path}, InsertOutcome(p.id, path),
                       IF InsertOutcome(p.id, path) = "none" THEN {path} ELSE {})
    /\ UNCHANGED <<client, log, session, images, uploading, alert, calls>>

ApiSelect(p, folder) ==
    /\ last' = Outcome("list", p.id, {Path(folder, NoLeaf)}, "none",
                       Paths(Visible(p.id, folder)))
    /\ UNCHANGED <<objects, client, log, session, images, uploading, alert,
                   calls>>

ApiDelete(p, paths) ==
    /\ DeleteRows(p.id, paths)
    /\ last' = Outcome("remove", p.id, paths, "none",
                       Paths(Deletable(p.id, paths)))
    /\ UNCHANGED <<client, log, session, images, uploading, alert, calls>>

InitPolicy ==
    /\ GalleryIdle
    /\ SanitizeIdle
    /\ ValidateIdle
    /\ PartsIdle

NextPolicy ==
    \/ \E p \in Principals, path \in ApiPaths : ApiInsert(p, path) /\ UNCHANGED <<pureVars, partVars>>
    \/ \E p \in Principals, f \in Folders : ApiSelect(p, f) /\ UNCHANGED <<pureVars, partVars>>
    \/ \E p \in Principals, paths \in Batches :
          ApiDelete(p, paths) /\ UNCHANGED <<pureVars, partVars>>

SpecPolicy == InitPolicy /\ [][NextPolicy]_vars

----------------------------------------------------------------------------
(* Specification of the pure folder-key derivation: a display name is      *)
(* drawn, sanitized, and the result is sanitized again.                    *)

MyCarPart == <<"M","y"," ","C","a","r"," ","P","a","r","t","!","!">>

DisplayNames ==
    UNION {[1..n -> {"A", "a", "1", " ", "-", "!"}] : n \in 0..MaxLen}
        \cup {MyCarPart, <<" "," "," ">>}

InitSanitize ==
    /\ sanIn \in DisplayNames
    /\ sanOut = <<>>
    /\ ValidateIdle
    /\ GalleryIdle
    /\ PartsIdle

\* first application, as the callers do on session.user.user_metadata.full_name
Sanitize ==
    /\ sanOut = <<>>
    /\ sanOut' = <<sanitizeFolderName(sanIn)>>
    /\ UNCHANGED <<sanIn, file, verdict, galleryVars, partVars>>

\* the result used as a display name again
Resanitize ==
    /\ Len(sanOut) = 1
    /\ sanOut' = Append(sanOut, sanitizeFolderName(sanOut[1]))
    /\ UNCHANGED <<sanIn, file, verdict, galleryVars, partVars>>

NextSanitize == Sanitize \/ Resanitize

SpecSanitize == InitSanitize /\ [][NextSanitize]_vars

----------------------------------------------------------------------------
(* Specification of the validation rules alone: a file is drawn and the    *)
(* rules of uploadImage are applied to it.                                 *)

MimeTypes ==
    { <<"i","m","a","g","e","/","p","n","g">>,
      <<"i","m","a","g","e","/","j","p","e","g">>,
      <<"t","e","x","t","/","p","l","a","i","n">>,
      <<"i","m","a","g","e">>,
      <<>> }

Spellings ==
    validExtensions \cup
    { <<"J","P","G">>, <<"J","p","g">>, <<"P","n","G">>, <<"W","E","B","P">>,
      <<"t","x","t">>, <<"j","p">>, <<"p","n","g","x">>, <<>> }

FileNames ==
    {st \o <<".">> \o sp :
        st \in { <<"a">>, <<>>, <<"a",".","b">>, <<"a",".","p","n","g">> },
        sp \in Spellings} \cup Spellings

CandidateFiles ==
    [type : MimeTypes,
     size : {0, 1, maxSize - 1, maxSize, maxSize + 1, 2 * maxSize},
     name : FileNames]

InitValidate ==
    /\ file \in CandidateFiles
    /\ verdict = "unchecked"
    /\ SanitizeIdle
    /\ GalleryIdle
    /\ PartsIdle

\* uploadImage up to the point where the storage path is built
Validate ==
    /\ verdict = "unchecked"
    /\ verdict' = ValidationError(file)
    /\ UNCHANGED <<file, sanIn, sanOut, galleryVars, partVars>>

\* the next file is selected
SelectFile ==
    /\ verdict # "unchecked"
    /\ file' \in CandidateFiles
    /\ verdict' = "unchecked"
    /\ UNCHANGED <<sanIn, sanOut, galleryVars, partVars>>

NextValidate == Validate \/ SelectFile

SpecValidate == InitValidate /\ [][NextValidate]_vars

----------------------------------------------------------------------------
(* C7, C8 *)

\* C7: sanitizeFolderName is idempotent: sanitizing a sanitized name
\* gives the same name back.
C7_Idempotent == Len(sanOut) = 2 => sanOut[2] = sanOut[1]

\* a name whose sanitized form differs from it has been sanitized twice
C7_Witness == Len(sanOut) = 2 /\ sanOut[1] # sanIn /\ sanOut[1] # <<>>

\* Reference: the lower-cased name is cut at every whitespace or hyphen
\* character, the characters outside [a-z0-9] are dropped from each piece,
\* the pieces left empty are dropped, and the rest is joined by single
\* hyphens.
RECURSIVE Pieces(_, _)
Pieces(s, cur) ==
    IF s = <<>> THEN <<cur>>
    ELSE IF s[1] \in WhiteSpace \cup {"-"}
         THEN <<cur>> \o Pieces(Tail(s), <<>>)
         ELSE Pieces(Tail(s), Append(cur, s[1]))

IsAlnum(c) == c \in Range(LowerCase) \cup Digits
NonEmpty(p) == p # <<>>

RECURSIVE Join(_)
Join(ps) ==
    IF ps = <<>> THEN <<>>
    ELSE IF Len(ps) = 1 THEN ps[1]
         ELSE ps[1] \o <<"-">> \o Join(Tail(ps))

Reference(s) ==
    LET cut == Pieces(toLowerCase(s), <<>>)
        kept == [i \in DOMAIN cut |-> SelectSeq(cut[i], IsAlnum)]
    IN  Join(SelectSeq(kept, NonEmpty))

\* empty, or non-empty [a-z0-9] groups separated by single hyphens
WellFormedKey(k) ==
    /\ \A i \in DOMAIN k : IsFolderChar(k[i])
    /\ k # <<>> => k[1] # "-" /\ k[Len(k)] # "-"
    /\ \A i \in 1..(Len(k) - 1) : ~(k[i] = "-" /\ k[i + 1] = "-")

\* C8: sanitizeFolderName equals the five-step reference, its result is
\* empty or groups of [a-z0-9] separated by single hyphens, and
\* "My Car Part!!" gives "my-car-part".
C8_Reference ==
    Len(sanOut) >= 1 =>
        /\ sanOut[1] = Reference(sanIn)
        /\ WellFormedKey(sanOut[1])
        /\ sanIn = MyCarPart =>
             sanOut[1] = <<"m","y","-","c","a","r","-","p","a","r","t">>

\* the example of the specification has been sanitized
C8_Witness ==
    /\ sanIn = MyCarPart
    /\ Len(sanOut) >= 1
    /\ Len(sanOut[1]) = 11

----------------------------------------------------------------------------
(* C3 *)

\* the text after the final '.' of a name that has one
RECURSIVE AfterFinalDot(_)
AfterFinalDot(name) ==
    IF name[Len(name)] = "." THEN <<>>
    ELSE Append(AfterFinalDot(SubSeq(name, 1, Len(name) - 1)), name[Len(name)])

ThreeRules(f) ==
    /\ startsWith(f.type, ImagePrefix)
    /\ f.size <= 5 * 1024 * 1024
    /\ "." \in Range(f.name)
    /\ toLowerCase(AfterFinalDot(f.name)) \in validExtensions

\* C3: uploadImage accepts a file exactly when its declared type starts
\* with image/, its size is at most 5 MiB and the lower-cased text after the
\* final '.' of its name is one of jpg, jpeg, png, gif, webp.
C3_AcceptIffThreeRules ==
    verdict # "unchecked" => (verdict = "none" <=> ThreeRules(file))

----------------------------------------------------------------------------
(* C1, C10: the policies *)

FirstSegment(path) == foldername(path)[1]

Served == last.op # "none"

\* every path argument of the request lies outside the caller's folder
Foreign == Served /\ \A path \in last.paths : FirstSegment(path) # last.uid

Mixed ==
    /\ last.op = "remove"
    /\ \E path \in last.paths : FirstSegment(path) = last.uid
    /\ \E path \in last.paths : FirstSegment(path) # last.uid

OwnedBy(uid, paths) == {path \in paths : FirstSegment(path) = uid}

----------------------------------------------------------------------------
(* C4, C6, C9: the gallery *)

UploadedPath(c) == Path(c.folder, c.leaf)

\* the list call the handler of c leaves in flight when it resumes
Refresh(c) ==
    {l \in calls' \ calls :
        /\ l.op = "list" /\ l.stage = "sent"
        /\ l.s = c.s /\ l.folder = c.folder /\ l.uid = c.uid}

\* C4: after a successful upload to path P the refresh lists the folder of
\* P and a list of that folder contains the leaf of P; after a successful
\* remove of P it no longer does; no other object is touched.
C4_RoundTrip ==
    [][\A c \in calls :
         /\ (ServeUpload(c) /\ InsertOutcome(c.uid, UploadedPath(c)) = "none") =>
               /\ Refresh(c) # {}
               /\ Entry(UploadedPath(c)) \in
                     {Entry(o) : o \in Visible(c.uid, c.folder)}'
               /\ objects' \ {UploadedPath(c)} = objects
         /\ (ServeRemove(c) /\ UploadedPath(c) \in Paths(Visible(c.uid, c.folder))) =>
               /\ Refresh(c) # {}
               /\ Entry(UploadedPath(c)) \notin
                     {Entry(o) : o \in Visible(c.uid, c.folder)}'
               /\ objects' = objects \ {UploadedPath(c)}
      ]_vars

\* the refresh after a delete no longer lists an image the gallery had
\* uploaded and displayed
C4_Witness ==
    \E c \in calls :
        /\ c.op = "list" /\ c.from = "delete" /\ c.stage = "served"
        /\ \E e \in images[c.s] : e.name \in {Leaf(<<u>>, png) : u \in Uuids}
                                  /\ e \notin c.data

\* C6 as stated: no upload is ever given the path of another upload.
C6_PathsNeverCollide ==
    \A c \in calls : c.op = "upload" => UploadedPath(c) \notin Paths(objects)

\* C6 as amended: every successful uploadImage creates a new object and
\* overwrites nothing; an upload that is given a path already in use fails
\* and leaves the bucket as it was.
C6_UploadNeverOverwrites ==
    [][\A c \in calls :
         ServeUpload(c) =>
            IF UploadedPath(c) \in Paths(objects)
            THEN objects' = objects /\ alert'[c.s] \in {"Conflict", "Forbidden"}
            ELSE alert'[c.s] = "none" =>
                    objects' = objects \cup {UploadedPath(c)}
      ]_vars

\* an upload was given a path in use and was refused
C6_Witness == \E s \in Sessions : alert[s] = "Conflict"

\* C9: the slug-based gallery issues no storage call with an empty folder
\* key.
C9_EmptyKeyRejected ==
    \A c \in calls : client[c.s] = "slug" => c.folder # <<>>

----------------------------------------------------------------------------
(* Claims about the parts page *)

\* C2: validation precedes the network on the view-scoped entry point: no
\* storage upload is in flight from handleImageUpload/uploadPartImage for a
\* file that fails the type, size or extension rule
C2_ValidationPrecedesNetwork ==
    \A op \in partOps :
        (op.kind = "upload" /\ op.stage = "upload")
            => ValidationError(op.file) = "none"

\* the live image objects of one view slot: everything in the folder of the
\* view type but the placeholder
LiveObjects(viewType) ==
    {o \in partObjects :
        /\ o.path.folder = viewType \o jpgSuffix
        /\ o.path.name # keepName}

\* C5: each (folderKey, viewType) slot holds at most one live image object,
\* whatever the names and extensions of the uploaded files
C5_AtMostOnePerSlot ==
    \A v \in Views : Cardinality(LiveObjects(v)) <= 1

\* C11: no failure of the asset store is swallowed: a step in which a storage
\* upload, remove or list of the parts page fails (the upload of
\* uploadPartImage, the remove of deletePartImage, a placeholder upload or a
\* list of the partImages query) leaves a notification on the screen
C11_NoFailureSwallowed ==
    [][\A op \in partOps :
          (\/ UploadRefused(op)
           \/ RemoveRefused(op)
           \/ FoldersListed(op, FALSE)
           \/ \E folder \in op.folders : FilesListed(op, folder, FALSE)
           \/ \E written \in (SUBSET Views) \ {Views} : KeepWritten(op, written))
          => partAlert'[op.page] # "none"
      ]_vars

----------------------------------------------------------------------------
(* C12, C13: failures in the gallery *)

\* the upload and remove requests among the calls cs
Mutations(cs) == {c \in cs : c.op \in {"upload", "remove"}}

\* a step in which the user picks a file or presses a delete button
UserAction ==
    \/ \E s \in Sessions, f \in GalleryFiles : UploadImage(s, f)
    \/ \E s \in Sessions : \E e \in images[s] : DeleteImage(s, e)

\* C12: no automatic retry: an upload or remove request is sent only by a
\* step of the user, one request per step; the step in which a request
\* fails or is answered sends no upload or remove request
C12_NoAutomaticRetry ==
    [][/\ Cardinality(Mutations(calls' \ calls)) <= 1
       /\ Mutations(calls' \ calls) # {} => UserAction
       /\ \A c \in Mutations(calls) :
             (FailCall(c) \/ ServeUpload(c) \/ ServeRemove(c))
                => Mutations(calls' \ calls) = {}
      ]_vars

\* an upload failed, the user was told, and no upload or remove is in flight
C12_Witness ==
    \E s \in Sessions :
        /\ alert[s] \in {"Unavailable", "Error deleting image"}
        /\ Mutations(InFlight(s)) = {}

\* a step in which getImages fails: its list call fails, or (slug variant,
\* `session` still null) it throws before sending one
GetImagesFails ==
    \/ \E c \in calls : c.op = "list" /\ FailCall(c)
    \/ \E s \in Sessions, p \in Principals :
          SignIn(s, p) /\ getImages(s, p.id, Null, "effect", calls) = {}

\* C13: stale over broken: a step in which getImages fails leaves the
\* displayed images exactly as they were and shows no alert; it only writes
\* a log entry
C13_FailedListKeepsImages ==
    [][GetImagesFails =>
          /\ images' = images
          /\ alert' = alert
          /\ \E s \in Sessions : log'[s] = "Error fetching images:"
      ]_vars

\* getImages has failed while images were displayed, and they still are
C13_Witness ==
    \E s \in Sessions :
        /\ log[s] = "Error fetching images:"
        /\ images[s] # {}
        /\ alert[s] = "none"

----------------------------------------------------------------------------
(* C14: principals with the same slug *)

\* the folder key the slug variant computes for the principal uid
SlugOf(uid) ==
    sanitizeFolderName((CHOOSE p \in Principals : p.id = uid).full_name)

\* the call served last was sent by a principal who shares its slug with
\* another principal, and addressed the folder of that slug
InSharedFolder ==
    /\ Served
    /\ \E q \in Principals : q.id # last.uid /\ SlugOf(q.id) = SlugOf(last.uid)
    /\ \A path \in last.paths : FirstSegment(path) = SlugOf(last.uid)

\* the objects of the slug folder that existed when the call was served
SharedBefore ==
    {path \in Paths(last.before) : FirstSegment(path) = SlugOf(last.uid)}

\* C14 as stated: each of the principals who share a slug lists every
\* object of the shared folder and deletes every object it names there.
C14_SharedFolderOpenToBoth ==
    InSharedFolder =>
        /\ last.op = "list" => last.data = SharedBefore
        /\ last.op = "remove" => Paths(objects) = Paths(last.before) \ last.paths

\* C14 as amended: the principals compute the same folder key, but the
\* policy compares the folder with the caller's identifier: only the
\* principal whose identifier is the key lists and deletes there; the
\* other's list returns nothing, its remove deletes nothing and its upload
\* is Forbidden.
C14_SharedKeyStillIsolated ==
    InSharedFolder =>
        IF SlugOf(last.uid) = last.uid
        THEN /\ last.op = "list" => last.data = SharedBefore
             /\ last.op = "remove" =>
                   Paths(objects) = Paths(last.before) \ last.paths
        ELSE /\ objects = last.before
             /\ last.data = {}
             /\ last.op = "upload" => last.error = "Forbidden"

\* the principal whose identifier is not the shared key listed the folder,
\* or asked to remove an object of it, while the folder held an object
C14_Witness ==
    /\ InSharedFolder
    /\ SlugOf(last.uid) # last.uid
    /\ SharedBefore # {}
    /\ \/ last.op = "list"
       \/ last.op = "remove" /\ last.paths \cap SharedBefore # {}

----------------------------------------------------------------------------
(* C15: refresh after a mutation *)

\* the list calls a step sends
NewLists == {l \in calls' \ calls : l.op = "list" /\ l.stage = "sent"}

\* C15: refresh after every mutation: the step in which an upload or a
\* remove of the gallery is answered without error sends exactly one list
\* call, for the same folder and from the same session; a step in which the
\* mutation fails (the file is refused by the validation, the storage
\* reports an error, or the call fails) sends no list call
C15_RefreshAfterMutation ==
    [][/\ \A c \in Mutations(calls) \ calls' :
            (\/ ServeUpload(c) /\ InsertOutcome(c.uid, UploadedPath(c)) = "none"
             \/ ServeRemove(c))
               => Cardinality(Refresh(c)) = 1 /\ NewLists = Refresh(c)
       /\ \/ NewLists = {}
          \/ ~\E c \in Mutations(calls) \ calls' :
                \/ ServeUpload(c) /\ InsertOutcome(c.uid, UploadedPath(c)) # "none"
                \/ FailCall(c)
       /\ \/ NewLists = {}
          \/ ~\E s \in Sessions :
                \/ UploadNoFile(s)
                \/ \E f \in GalleryFiles :
                      UploadImage(s, f) /\ ValidationError(f) # "none"
      ]_vars

\* the refresh sent after a successful upload or remove is in flight, for
\* the folder of the signed-in principal
C15_Witness ==
    \E c \in calls :
        /\ c.op = "list" /\ c.stage = "sent"
        /\ c.from \in {"upload", "delete"}
        /\ c.folder = FolderKey(c.s, session[c.s])

\* C15 on the parts page: a successful storage upload or remove of
\* uploadPartImage / deletePartImage goes on to the refetch of the
\* partImages query (after the metadata write of the main slot); a failed
\* one ends the handler without a refetch
C15_PartsRefetch ==
    [][\A op \in partOps :
          /\ (UploadStored(op) \/ RemoveDone(op)) =>
                \E next \in partOps' \ partOps :
                    /\ next.kind = op.kind /\ next.copy = op.copy
                    /\ next.stage \in {"meta", "keep"}
          /\ MetaWritten(op, TRUE) \/ MetaWritten(op, FALSE) =>
                \E next \in partOps' \ partOps :
                    next.kind = op.kind /\ next.stage = "keep"
          /\ (UploadRefused(op) \/ RemoveRefused(op)) =>
                partOps' = partOps \ {op}
      ]_vars

----------------------------------------------------------------------------
(* C16: two uploads to one slot *)

\* the objects stored at a path
At(objs, path) == {o \in objs : o.path = path}

\* the uploads a step applies to a path
Applied(path) == {op \in partOps : op.path = path /\ UploadStored(op)}

----------------------------------------------------------------------------
(* C17: displayed listings *)

\* C17: the listing a page displays is a consistent snapshot: partImages
\* equals the contents the part's folders had at one single past moment
C17_ConsistentSnapshots ==
    \A pg \in Pages : partImages[pg] \in moments

----------------------------------------------------------------------------
(* C18: the main-image URL *)

\* C18: main-image URL consistency: whenever no upload or delete is in
\* flight, a non-null itemurl is the public URL of an object that exists in
\* the main slot
C18_MainUrlConsistent ==
    ((~\E op \in partOps : op.kind \in {"upload", "delete"}) /\ itemurl # {}) =>
        \E o \in LiveObjects(VIEW_TYPES[1]) : itemurl = {getPublicUrl(o.path)}

----------------------------------------------------------------------------
(* C19: the gallery at rest *)

\* every call of session s has completed and no upload, remove or list of
\* the session has reported an error
Quiescent(s) ==
    /\ session[s] # Null
    /\ InFlight(s) = {}
    /\ alert[s] = "none"
    /\ log[s] = "none"

\* C19: quiescent convergence: once every mutation and every list call of
\* a session has completed without error, the images it displays are the
\* current contents of the principal's folder
C19_QuiescentConvergence ==
    \A s \in Sessions :
        Quiescent(s) =>
            images[s] = {Entry(o) : o \in Visible(session[s].id,
                                                  FolderKey(s, session[s]))}

----------------------------------------------------------------------------
(* C20: sign-in *)

\* C20: sign-in loads the right folder: the list call getImages issues
\* when a session becomes active uses the folder key of that session's
\* principal
C20_SignInListsOwnFolder ==
    \A c \in calls :
        c.from = "effect" => c.folder = FolderKey(c.s, session[c.s])

----------------------------------------------------------------------------
(* C21: the Save Part button *)

\* C21: the saved-item toggle matches the table: a toggle sends an insert
\* only when the pair is absent from saved_items and a delete only when it
\* is present
C21_ToggleMatchesTable ==
    [][\A pg \in Pages :
          toggleSaveMutation(pg) =>
              \A op \in saveOps' \ saveOps :
                  /\ op.kind = "insert" => currentPartSlug \notin savedItems
                  /\ op.kind = "delete" => currentPartSlug \in savedItems
      ]_vars

----------------------------------------------------------------------------
(* C22: the uploading flag of the gallery *)

\* the calls of an uploadImage of session s that has not ended: its storage
\* upload, or the list of the getImages it awaits
UploadInProgress(s) == {c \in InFlight(s) : c.from = "upload"}

\* C22: the uploading flag is true exactly while an uploadImage call is in
\* progress, whichever way the call ends, and a session has at most one
\* uploadImage in progress
C22_UploadingFlag ==
    \A s \in Sessions :
        /\ uploading[s] <=> UploadInProgress(s) # {}
        /\ Cardinality(UploadInProgress(s)) <= 1

\* an uploadImage has ended with an error report and the flag is false
\* again, while another call of the session is still in flight
C22_Witness ==
    \E s \in Sessions :
        /\ ~uploading[s]
        /\ log[s] = "Error uploading image:"
        /\ alert[s] \in {"Unavailable", "Conflict", "Forbidden"}
        /\ InFlight(s) # {}

====
